---- MODULE Spec2Model ----
(***************************************************************************)
(* Model of src/main.py: a Telegram relay bot whose message handler runs   *)
(* every inbound text message through a per-chat abuse gate (is_flooding,  *)
(* then is_spam) before it forwards the message to a generative model.     *)
(*                                                                         *)
(* Time is the value returned by time(), in whole seconds.  The variable   *)
(* now holds the latest reading; a reading never goes backwards.  One run  *)
(* of the gate reads the clock twice, in is_flooding and then in is_spam,  *)
(* and the second reading may fall in the next second.                     *)
(***************************************************************************)
EXTENDS Integers, Sequences, FiniteSets, TLC

VARIABLES
    now,                       \* latest value returned by time()
    user_last_message_time,    \* dict chat_id -> time of the last admitted message
    user_spam_cooldown_until,  \* dict chat_id -> end of the anti-spam cooldown
    user_message_log,          \* dict chat_id -> list of recent message times
    user_block_until,          \* dict chat_id -> end of the flood block
    user_memory,               \* dict chat_id -> list of conversation entries
    task,                      \* the running handle_message invocations
    obs                        \* observation of the gate calls made so far, per chat

vars == << now, user_last_message_time, user_spam_cooldown_until,
           user_message_log, user_block_until, user_memory, task, obs >>

gateVars == << user_last_message_time, user_spam_cooldown_until,
               user_message_log, user_block_until >>

(***************************************************************************)
(* Program constants                                                       *)
(***************************************************************************)
ANTI_SPAM_MIN_INTERVAL == 5
ANTI_SPAM_COOLDOWN == 10
FLOOD_MAX_MESSAGES == 10
FLOOD_WINDOW == 60
FLOOD_BLOCK_TIME == 300
MAX_HISTORY == 10

(***************************************************************************)
(* Bounds of the model                                                     *)
(***************************************************************************)
MaxCalls == 12      \* gate calls per chat, one handler at a time
MaxConcCalls == 2   \* gate calls in all, concurrent handlers
MaxQuiet == 2       \* gate calls of every chat but the busiest one
MaxSkews == 1       \* gate calls per chat whose two clock readings differ
MaxLongWaits == 1   \* gate calls per chat made FLOOD_BLOCK_TIME after the last
MaxNearCalls == 7   \* gate calls per chat, calls around the minimum interval

Chats == {1, 2}
Tasks == {1, 2}

(***************************************************************************)
(* Python dicts: a function whose domain is the set of keys present        *)
(***************************************************************************)
EmptyDict == [k \in {} |-> 0]
Has(d, k) == k \in DOMAIN d
Get(d, k, default) == IF k \in DOMAIN d THEN d[k] ELSE default
Put(d, k, v) == [x \in (DOMAIN d) \cup {k} |-> IF x = k THEN v ELSE d[x]]
Del(d, k) == [x \in (DOMAIN d) \ {k} |-> d[x]]

(***************************************************************************)
(* Faulty variants of is_flooding, to show what the properties detect      *)
(***************************************************************************)
\* blocks at the FLOOD_MAX_MESSAGES-th message of a window (>= for >)
IsFlooding_OffByOne(block, log, chat_id, t) ==
    IF Has(block, chat_id) /\ t < block[chat_id]
    THEN [ret |-> TRUE, block |-> block, log |-> log]
    ELSE
      LET block1 == IF Has(block, chat_id) THEN Del(block, chat_id) ELSE block
          new    == Append(SelectSeq(Get(log, chat_id, << >>),
                                     LAMBDA x : t - x < FLOOD_WINDOW), t)
          log1   == Put(log, chat_id, new)
      IN  IF Len(new) >= FLOOD_MAX_MESSAGES
          THEN [ret |-> TRUE,
                block |-> Put(block1, chat_id, t + FLOOD_BLOCK_TIME),
                log |-> log1]
          ELSE [ret |-> FALSE, block |-> block1, log |-> log1]

\* still blocked at now = blockedUntil (<= for <)
IsFlooding_BoundaryBlocked(block, log, chat_id, t) ==
    IF Has(block, chat_id) /\ t <= block[chat_id]
    THEN [ret |-> TRUE, block |-> block, log |-> log]
    ELSE
      LET block1 == IF Has(block, chat_id) THEN Del(block, chat_id) ELSE block
          new    == Append(SelectSeq(Get(log, chat_id, << >>),
                                     LAMBDA x : t - x < FLOOD_WINDOW), t)
          log1   == Put(log, chat_id, new)
      IN  IF Len(new) > FLOOD_MAX_MESSAGES
          THEN [ret |-> TRUE,
                block |-> Put(block1, chat_id, t + FLOOD_BLOCK_TIME),
                log |-> log1]
          ELSE [ret |-> FALSE, block |-> block1, log |-> log1]

\* the message is not added to the log
IsFlooding_NoAppend(block, log, chat_id, t) ==
    IF Has(block, chat_id) /\ t < block[chat_id]
    THEN [ret |-> TRUE, block |-> block, log |-> log]
    ELSE
      LET block1 == IF Has(block, chat_id) THEN Del(block, chat_id) ELSE block
          new    == SelectSeq(Get(log, chat_id, << >>),
                              LAMBDA x : t - x < FLOOD_WINDOW)
          log1   == Put(log, chat_id, new)
      IN  IF Len(new) > FLOOD_MAX_MESSAGES
          THEN [ret |-> TRUE,
                block |-> Put(block1, chat_id, t + FLOOD_BLOCK_TIME),
                log |-> log1]
          ELSE [ret |-> FALSE, block |-> block1, log |-> log1]

\* the log is not trimmed to the window
IsFlooding_NoTrim(block, log, chat_id, t) ==
    IF Has(block, chat_id) /\ t < block[chat_id]
    THEN [ret |-> TRUE, block |-> block, log |-> log]
    ELSE
      LET block1 == IF Has(block, chat_id) THEN Del(block, chat_id) ELSE block
          new    == Append(Get(log, chat_id, << >>), t)
          log1   == Put(log, chat_id, new)
      IN  IF Len(new) > FLOOD_MAX_MESSAGES
          THEN [ret |-> TRUE,
                block |-> Put(block1, chat_id, t + FLOOD_BLOCK_TIME),
                log |-> log1]
          ELSE [ret |-> FALSE, block |-> block1, log |-> log1]

\* a call made during a block starts the block anew
IsFlooding_ExtendsBlock(block, log, chat_id, t) ==
    IF Has(block, chat_id) /\ t < block[chat_id]
    THEN [ret |-> TRUE, block |-> Put(block, chat_id, t + FLOOD_BLOCK_TIME),
          log |-> log]
    ELSE
      LET block1 == IF Has(block, chat_id) THEN Del(block, chat_id) ELSE block
          new    == Append(SelectSeq(Get(log, chat_id, << >>),
                                     LAMBDA x : t - x < FLOOD_WINDOW), t)
          log1   == Put(log, chat_id, new)
      IN  IF Len(new) > FLOOD_MAX_MESSAGES
          THEN [ret |-> TRUE,
                block |-> Put(block1, chat_id, t + FLOOD_BLOCK_TIME),
                log |-> log1]
          ELSE [ret |-> FALSE, block |-> block1, log |-> log1]

\* counts the recent messages of all chats together
IsFlooding_SharedCount(block, log, chat_id, t) ==
    IF Has(block, chat_id) /\ t < block[chat_id]
    THEN [ret |-> TRUE, block |-> block, log |-> log]
    ELSE
      LET block1 == IF Has(block, chat_id) THEN Del(block, chat_id) ELSE block
          new    == Append(SelectSeq(Get(log, chat_id, << >>),
                                     LAMBDA x : t - x < FLOOD_WINDOW), t)
          log1   == Put(log, chat_id, new)
          others == {k \in DOMAIN log : k # chat_id /\ Len(log[k]) > 0}
      IN  IF Len(new) + Cardinality(others) > FLOOD_MAX_MESSAGES
          THEN [ret |-> TRUE,
                block |-> Put(block1, chat_id, t + FLOOD_BLOCK_TIME),
                log |-> log1]
          ELSE [ret |-> FALSE, block |-> block1, log |-> log1]

(***************************************************************************)
(* is_flooding(chat_id), with t the value time() returns.                  *)
(* Result: ret, and the two dicts as the call leaves them.                 *)
(***************************************************************************)
IsFlooding(block, log, chat_id, t) ==
    IF Has(block, chat_id) /\ t < block[chat_id]
    THEN [ret |-> TRUE, block |-> block, log |-> log]
    ELSE
      LET block1 == IF Has(block, chat_id) THEN Del(block, chat_id) ELSE block
          old    == Get(log, chat_id, << >>)
          kept   == SelectSeq(old, LAMBDA x : t - x < FLOOD_WINDOW)
          new    == Append(kept, t)
          log1   == Put(log, chat_id, new)
      IN  IF Len(new) > FLOOD_MAX_MESSAGES
          THEN [ret |-> TRUE,
                block |-> Put(block1, chat_id, t + FLOOD_BLOCK_TIME),
                log |-> log1]
          ELSE [ret |-> FALSE, block |-> block1, log |-> log1]

\* Faulty variant of is_spam: a message rejected for coming too soon is
\* recorded as the last message
IsSpam_RecordOnReject(last, cooldown, chat_id, t) ==
    IF Has(cooldown, chat_id) /\ t < cooldown[chat_id]
    THEN [ret |-> TRUE, last |-> last, cooldown |-> cooldown]
    ELSE
      LET cooldown1 == IF Has(cooldown, chat_id) THEN Del(cooldown, chat_id)
                       ELSE cooldown
      IN  IF t - Get(last, chat_id, 0) < ANTI_SPAM_MIN_INTERVAL
          THEN [ret |-> TRUE, last |-> Put(last, chat_id, t),
                cooldown |-> Put(cooldown1, chat_id, t + ANTI_SPAM_COOLDOWN)]
          ELSE [ret |-> FALSE, last |-> Put(last, chat_id, t),
                cooldown |-> cooldown1]

\* Faulty variant of is_spam: a call made during a cooldown starts the
\* cooldown anew
IsSpam_ExtendsCooldown(last, cooldown, chat_id, t) ==
    IF Has(cooldown, chat_id) /\ t < cooldown[chat_id]
    THEN [ret |-> TRUE, last |-> last,
          cooldown |-> Put(cooldown, chat_id, t + ANTI_SPAM_COOLDOWN)]
    ELSE
      LET cooldown1 == IF Has(cooldown, chat_id) THEN Del(cooldown, chat_id)
                       ELSE cooldown
      IN  IF t - Get(last, chat_id, 0) < ANTI_SPAM_MIN_INTERVAL
          THEN [ret |-> TRUE, last |-> last,
                cooldown |-> Put(cooldown1, chat_id, t + ANTI_SPAM_COOLDOWN)]
          ELSE [ret |-> FALSE, last |-> Put(last, chat_id, t),
                cooldown |-> cooldown1]

\* Faulty variant of is_spam: a call made during a cooldown is recorded as
\* the last message
IsSpam_RefreshOnCooldown(last, cooldown, chat_id, t) ==
    IF Has(cooldown, chat_id) /\ t < cooldown[chat_id]
    THEN [ret |-> TRUE, last |-> Put(last, chat_id, t), cooldown |-> cooldown]
    ELSE
      LET cooldown1 == IF Has(cooldown, chat_id) THEN Del(cooldown, chat_id)
                       ELSE cooldown
      IN  IF t - Get(last, chat_id, 0) < ANTI_SPAM_MIN_INTERVAL
          THEN [ret |-> TRUE, last |-> last,
                cooldown |-> Put(cooldown1, chat_id, t + ANTI_SPAM_COOLDOWN)]
          ELSE [ret |-> FALSE, last |-> Put(last, chat_id, t),
                cooldown |-> cooldown1]

\* Faulty variant of is_spam: an admitted message is not recorded
IsSpam_NoRecord(last, cooldown, chat_id, t) ==
    IF Has(cooldown, chat_id) /\ t < cooldown[chat_id]
    THEN [ret |-> TRUE, last |-> last, cooldown |-> cooldown]
    ELSE
      LET cooldown1 == IF Has(cooldown, chat_id) THEN Del(cooldown, chat_id)
                       ELSE cooldown
      IN  IF t - Get(last, chat_id, 0) < ANTI_SPAM_MIN_INTERVAL
          THEN [ret |-> TRUE, last |-> last,
                cooldown |-> Put(cooldown1, chat_id, t + ANTI_SPAM_COOLDOWN)]
          ELSE [ret |-> FALSE, last |-> last, cooldown |-> cooldown1]

(***************************************************************************)
(* is_spam(chat_id), with t the value time() returns.                      *)
(***************************************************************************)
IsSpam(last, cooldown, chat_id, t) ==
    IF Has(cooldown, chat_id) /\ t < cooldown[chat_id]
    THEN [ret |-> TRUE, last |-> last, cooldown |-> cooldown]
    ELSE
      LET cooldown1 == IF Has(cooldown, chat_id) THEN Del(cooldown, chat_id)
                       ELSE cooldown
          lastT     == Get(last, chat_id, 0)
      IN  IF t - lastT < ANTI_SPAM_MIN_INTERVAL
          THEN [ret |-> TRUE, last |-> last,
                cooldown |-> Put(cooldown1, chat_id, t + ANTI_SPAM_COOLDOWN)]
          ELSE [ret |-> FALSE, last |-> Put(last, chat_id, t),
                cooldown |-> cooldown1]

(***************************************************************************)
(* The gate of handle_message: is_flooding, and only if that returns False *)
(* is_spam.  g is the record of the four dicts, t_flood the value time()   *)
(* returns in is_flooding (line 77) and t_spam the value it returns in     *)
(* is_spam (line 49).                                                      *)
(***************************************************************************)
GateState == [last     |-> user_last_message_time,
              cooldown |-> user_spam_cooldown_until,
              log      |-> user_message_log,
              block    |-> user_block_until]

\* Faulty variant of the gate: a message the cooldown check rejects is taken
\* out of the log again
Gate_LogOnlyAllowed(g, chat_id, t_flood, t_spam) ==
    LET f == IsFlooding(g.block, g.log, chat_id, t_flood)
    IN  IF f.ret
        THEN [flood |-> TRUE, spam |-> FALSE, last |-> g.last,
              cooldown |-> g.cooldown, log |-> f.log, block |-> f.block]
        ELSE LET s == IsSpam(g.last, g.cooldown, chat_id, t_spam)
             IN  [flood |-> FALSE, spam |-> s.ret, last |-> s.last,
                  cooldown |-> s.cooldown,
                  log |-> IF s.ret THEN g.log ELSE f.log, block |-> f.block]

\* Faulty variant of the gate: is_spam runs whatever is_flooding returns
Gate_BothChecks(g, chat_id, t_flood, t_spam) ==
    LET f == IsFlooding(g.block, g.log, chat_id, t_flood)
        s == IsSpam(g.last, g.cooldown, chat_id, t_spam)
    IN  [flood |-> f.ret, spam |-> ~f.ret /\ s.ret, last |-> s.last,
         cooldown |-> s.cooldown, log |-> f.log, block |-> f.block]

Gate(g, chat_id, t_flood, t_spam) ==
    LET f == IsFlooding(g.block, g.log, chat_id, t_flood)
    IN  IF f.ret
        THEN [flood |-> TRUE, spam |-> FALSE, last |-> g.last,
              cooldown |-> g.cooldown, log |-> f.log, block |-> f.block]
        ELSE LET s == IsSpam(g.last, g.cooldown, chat_id, t_spam)
             IN  [flood |-> FALSE, spam |-> s.ret, last |-> s.last,
                  cooldown |-> s.cooldown, log |-> f.log, block |-> f.block]

Verdict(r) == IF r.flood \/ r.spam THEN "Reject" ELSE "Allow"

(***************************************************************************)
(* Texts are lists of words.  str.lower() works word by word.              *)
(***************************************************************************)
LowerWord(w) ==
    CASE w = "OK"     -> "ok"
      [] w = "@MyBot" -> "@mybot"
      [] w = "Safety" -> "safety"
      [] OTHER        -> w

Lower(text) == [i \in 1..Len(text) |-> LowerWord(text[i])]

\* bot_username in text_l, the bot being called MyBot
Mentioned(text) == \E i \in 1..Len(text) : Lower(text)[i] = "@mybot"

\* "block_reason" in str(e).lower() or "safety" in str(e).lower()
IsSafetyError(e) ==
    \E i \in 1..Len(e) : Lower(e)[i] \in {"block_reason", "safety"}

ChatType(chat_id) == IF chat_id = 1 THEN "private" ELSE "group"

(***************************************************************************)
(* user_memory updates of handle_message                                   *)
(***************************************************************************)
LastN(s, n) == IF Len(s) > n THEN SubSeq(s, Len(s) - n + 1, Len(s)) ELSE s

\* lines 147-155: append the user entry, keep the last MAX_HISTORY * 2
AppendUser(memory, chat_id, user_text) ==
    LET appended == Append(Get(memory, chat_id, << >>),
                           [role |-> "user", text |-> user_text])
    IN  Put(memory, chat_id,
            IF Len(appended) > MAX_HISTORY * 2
            THEN LastN(appended, MAX_HISTORY * 2) ELSE appended)

\* lines 189-190
ReplyOf(response_text) ==
    IF response_text = << >> THEN << "..." >> ELSE Lower(response_text)

\* line 192
AppendModel(memory, chat_id, reply) ==
    Put(memory, chat_id,
        Append(memory[chat_id], [role |-> "model", text |-> reply]))

\* lines 200-203
FallbackOf(e) ==
    IF IsSafetyError(e) THEN << "i'd rather not talk about that." >>
    ELSE << "error processing your message." >>

(***************************************************************************)
(* Observation of the gate calls of one chat, kept beside the program's    *)
(* state: how many calls there were, the calls of the trailing             *)
(* FLOOD_WINDOW (the latest call always included), the first three calls,  *)
(* whether every call so far came at least ANTI_SPAM_MIN_INTERVAL after    *)
(* the one before with never more than FLOOD_MAX_MESSAGES calls in a       *)
(* window, and until when the chat is due to be blocked: FLOOD_BLOCK_TIME  *)
(* after the latest call that was the (FLOOD_MAX_MESSAGES + 1)-th call of  *)
(* its window made outside a block (0: never blocked).  allowed holds the  *)
(* time of the latest allowed call, if there was one.  A call has two      *)
(* times: t, read by is_flooding, and ts, read by is_spam (ts = t for a     *)
(* call that is_flooding rejects, which is_spam never sees).               *)
(***************************************************************************)
NoObs == [calls |-> 0, hist |-> << >>, first |-> << >>, disc |-> TRUE,
          until |-> 0, allowed |-> << >>, skews |-> 0, waits |-> 0]

\* One call: its times, the gate's result r, and what the dicts of the
\* chat held when it was made (g).
Entry(g, chat_id, t, t_spam, r) ==
    [t       |-> t,
     ts      |-> IF r.flood THEN t ELSE t_spam,
     fresh   |-> ~(Has(g.last, chat_id) \/ Has(g.cooldown, chat_id)
                   \/ Has(g.log, chat_id) \/ Has(g.block, chat_id)),
     blk     |-> Has(g.block, chat_id) /\ t < g.block[chat_id],
     expired |-> Has(g.block, chat_id) /\ t >= g.block[chat_id],
     flood   |-> r.flood,
     spam    |-> r.spam,
     v       |-> Verdict(r)]

Observe(o, e) ==
    LET inWindow == SelectSeq(o.hist, LAMBDA x : e.t - x.t < FLOOD_WINDOW)
        during   == e.t < o.until
        outside  == SelectSeq(inWindow, LAMBDA x : ~x.during)
        eleventh == ~during /\ Len(outside) + 1 > FLOOD_MAX_MESSAGES
        entry    == [t |-> e.t, ts |-> e.ts, fresh |-> e.fresh, blk |-> e.blk,
                     expired |-> e.expired, flood |-> e.flood, spam |-> e.spam,
                     v |-> e.v, during |-> during, eleventh |-> eleventh]
    IN  [calls |-> o.calls + 1,
         hist  |-> Append(inWindow, entry),
         first |-> IF Len(o.first) < 3 THEN Append(o.first, entry) ELSE o.first,
         disc  |-> /\ o.disc
                   /\ \/ o.hist = << >>
                      \/ e.t - o.hist[Len(o.hist)].ts >= ANTI_SPAM_MIN_INTERVAL
                   /\ Len(inWindow) + 1 <= FLOOD_MAX_MESSAGES,
         until |-> IF eleventh THEN e.t + FLOOD_BLOCK_TIME ELSE o.until,
         allowed |-> IF e.v = "Allow" THEN << e.ts >> ELSE o.allowed,
         skews |-> IF e.ts # e.t THEN o.skews + 1 ELSE o.skews,
         waits |-> IF e.t - (IF o.hist = << >> THEN 0
                             ELSE o.hist[Len(o.hist)].ts) >= FLOOD_BLOCK_TIME
                   THEN o.waits + 1 ELSE o.waits]

LastCall(c) == obs[c].hist[Len(obs[c].hist)]

(***************************************************************************)
(* handle_message, one action per stretch of code between two awaits.      *)
(* A task is one invocation; pc names the await it is suspended at.  Of    *)
(* what the invocation did, the task keeps: the gate's verdict, the        *)
(* messages it sent (out), whether it called the model, whether it         *)
(* appended a model entry to user_memory, which call inside the try raised *)
(* (failed), and whether an exception left handle_message (raised).        *)
(***************************************************************************)
IdleTask == [pc |-> "idle", chat |-> 0, text |-> << >>, reply_to |-> "none",
             verdict |-> "none", out |-> << >>, called |-> FALSE,
             appended |-> FALSE, failed |-> "none", raised |-> FALSE]

Init ==
    /\ now = 0
    /\ user_last_message_time = EmptyDict
    /\ user_spam_cooldown_until = EmptyDict
    /\ user_message_log = EmptyDict
    /\ user_block_until = EmptyDict
    /\ user_memory = EmptyDict
    /\ task = [p \in Tasks |-> IdleTask]
    /\ obs = [c \in Chats |-> NoObs]

\* A finished invocation: what it was handed is gone; the verdict, what it
\* sent and how it ended remain
Finished(tk) == [tk EXCEPT !.pc = "done", !.text = << >>, !.reply_to = "none",
                           !.appended = FALSE, !.failed = "none"]

\* Faulty variant of RunGate: the typing action goes out before the gate
RunGate_TypingFirst(p, tk, t_flood, t_spam, cap) ==
    LET c == tk.chat
        r == Gate(GateState, c, t_flood, t_spam)
        typed == [tk EXCEPT !.out = Append(@, "typing")]
    IN  /\ cap
        /\ now' = IF r.flood THEN t_flood ELSE t_spam
        /\ user_last_message_time' = r.last
        /\ user_spam_cooldown_until' = r.cooldown
        /\ user_message_log' = r.log
        /\ user_block_until' = r.block
        /\ obs' = [obs EXCEPT ![c] =
                    Observe(@, Entry(GateState, c, t_flood, t_spam, r))]
        /\ task' = [task EXCEPT ![p] =
                      IF Verdict(r) = "Reject"
                      THEN Finished([typed EXCEPT !.verdict = "Reject"])
                      ELSE [tk EXCEPT !.verdict = "Allow", !.pc = "typing"]]
        /\ UNCHANGED user_memory

\* lines 136-142: the gate, then on to the typing action.  is_flooding
\* reads time() as t_flood; if it returns False, is_spam reads time() again
\* as t_spam.  No await stands between the two.  cap bounds the number of
\* gate calls explored.
RunGate(p, tk, t_flood, t_spam, cap) ==
    LET c == tk.chat
        r == Gate(GateState, c, t_flood, t_spam)
    IN  /\ cap
        /\ now' = IF r.flood THEN t_flood ELSE t_spam
        /\ user_last_message_time' = r.last
        /\ user_spam_cooldown_until' = r.cooldown
        /\ user_message_log' = r.log
        /\ user_block_until' = r.block
        /\ obs' = [obs EXCEPT ![c] =
                    Observe(@, Entry(GateState, c, t_flood, t_spam, r))]
        /\ task' = [task EXCEPT ![p] =
                      IF Verdict(r) = "Reject"
                      THEN Finished([tk EXCEPT !.verdict = "Reject"])
                      ELSE [tk EXCEPT !.verdict = "Allow", !.pc = "typing"]]
        /\ UNCHANGED user_memory

\* lines 108-121: a new update u reaches the handler
Start(p, u, t_flood, t_spam, cap) ==
    LET tk == [IdleTask EXCEPT !.chat = u.chat, !.text = u.text,
                               !.reply_to = u.reply_to]
    IN  /\ task[p].pc \in {"idle", "done"}
        /\ IF ~u.has_msg
           THEN /\ task' = [task EXCEPT ![p] = Finished(tk)]
                /\ UNCHANGED << now, gateVars, user_memory, obs >>
           ELSE IF ChatType(u.chat) # "private"
           THEN /\ task' = [task EXCEPT ![p] = [tk EXCEPT !.pc = "get_me"]]
                /\ UNCHANGED << now, gateVars, user_memory, obs >>
           ELSE RunGate(p, tk, t_flood, t_spam, cap)

\* lines 121-142: get_me has answered
AfterGetMe(p, t_flood, t_spam, cap) ==
    /\ task[p].pc = "get_me"
    /\ IF ~(Mentioned(task[p].text) \/ task[p].reply_to = "bot")
       THEN /\ task' = [task EXCEPT ![p] = Finished(@)]
            /\ UNCHANGED << now, gateVars, user_memory, obs >>
       ELSE RunGate(p, task[p], t_flood, t_spam, cap)

\* lines 142-187: the typing action is out; memory, then the model is called
AfterTyping(p) ==
    /\ task[p].pc = "typing"
    /\ user_memory' = AppendUser(user_memory, task[p].chat, task[p].text)
    /\ task' = [task EXCEPT ![p].pc = "generate",
                            ![p].out = Append(@, "typing"),
                            ![p].called = TRUE]
    /\ UNCHANGED << now, gateVars, obs >>

\* lines 189-195: the model answered response_text
GenerateOk(p, response_text) ==
    /\ task[p].pc = "generate"
    /\ user_memory' = AppendModel(user_memory, task[p].chat, ReplyOf(response_text))
    /\ task' = [task EXCEPT ![p].pc = "reply", ![p].text = ReplyOf(response_text),
                            ![p].appended = TRUE]
    /\ UNCHANGED << now, gateVars, obs >>

\* Faulty variant of GenerateFails: the fallback text is put into
\* user_memory as the model's entry
GenerateFails_AppendsFallback(p, e) ==
    /\ task[p].pc = "generate"
    /\ user_memory' = AppendModel(user_memory, task[p].chat, FallbackOf(e))
    /\ task' = [task EXCEPT ![p].pc = "fallback", ![p].text = FallbackOf(e),
                            ![p].failed = "model"]
    /\ UNCHANGED << now, gateVars, obs >>

\* lines 197-203: the model call raised e
GenerateFails(p, e) ==
    /\ task[p].pc = "generate"
    /\ task' = [task EXCEPT ![p].pc = "fallback", ![p].text = FallbackOf(e),
                            ![p].failed = "model"]
    /\ UNCHANGED << now, gateVars, user_memory, obs >>

\* line 195 returned: the reply is out
ReplySent(p) ==
    /\ task[p].pc = "reply"
    /\ task' = [task EXCEPT ![p] = Finished([@ EXCEPT !.out = Append(@, "reply")])]
    /\ UNCHANGED << now, gateVars, user_memory, obs >>

\* line 195 raised e: lines 197-203
ReplyFails(p, e) ==
    /\ task[p].pc = "reply"
    /\ task' = [task EXCEPT ![p].pc = "fallback", ![p].text = FallbackOf(e),
                            ![p].failed = "reply"]
    /\ UNCHANGED << now, gateVars, user_memory, obs >>

\* line 201 or 203 returned: the fallback message is out
FallbackSent(p) ==
    /\ task[p].pc = "fallback"
    /\ task' = [task EXCEPT ![p] =
                  Finished([@ EXCEPT !.out = Append(@, "fallback")])]
    /\ UNCHANGED << now, gateVars, user_memory, obs >>

\* An await outside the try raised (get_me at line 121, send_chat_action at
\* line 142, reply_text at line 201 or 203): the exception leaves
\* handle_message
AwaitRaises(p) ==
    /\ task[p].pc \in {"get_me", "typing", "fallback"}
    /\ task' = [task EXCEPT ![p] = Finished([@ EXCEPT !.raised = TRUE])]
    /\ UNCHANGED << now, gateVars, user_memory, obs >>

(***************************************************************************)
(* Environments                                                            *)
(***************************************************************************)
Update(c, text, reply_to) ==
    [has_msg |-> TRUE, chat |-> c, text |-> text, reply_to |-> reply_to]

\* The clock between the two readings of one gate run: is_spam reads the
\* second is_flooding read, or the next one.  MaxSkews bounds the number of
\* calls of a chat explored with two different readings.
Skews(c) == IF c \in Chats /\ obs[c].skews < MaxSkews THEN {0, 1} ELSE {0}

\* One handler at a time (updates are processed one after the other), one
\* private chat, the model always answers.  MaxLongWaits bounds the number
\* of calls explored that come FLOOD_BLOCK_TIME after the one before.
GateDeltas == IF obs[1].waits < MaxLongWaits THEN {1, 5, 300} ELSE {1, 5}

NextGate ==
    \/ \E d \in GateDeltas, k \in Skews(1) :
          Start(1, Update(1, << "hi" >>, "none"), now + d, now + d + k,
                obs[1].calls < MaxCalls)
    \/ AfterTyping(1)
    \/ GenerateOk(1, << "OK" >>)
    \/ ReplySent(1)

SpecGate == Init /\ [][NextGate]_vars

\* One handler at a time, one private chat, calls that come just under, at
\* and just over ANTI_SPAM_MIN_INTERVAL after the reading before.
NearDeltas == {1, 4, 5}

NextNear ==
    \/ \E d \in NearDeltas, k \in Skews(1) :
          Start(1, Update(1, << "hi" >>, "none"), now + d, now + d + k,
                obs[1].calls < MaxNearCalls)
    \/ AfterTyping(1)
    \/ GenerateOk(1, << "OK" >>)
    \/ ReplySent(1)

SpecNear == Init /\ [][NextNear]_vars

\* One handler at a time, one private chat, calls far enough apart to pass
\* the cooldown check, so that only the flood check can reject them: ten
\* gaps of 5 or 6 seconds take less than FLOOD_WINDOW unless all are 6.
FloodDeltas == {5, 6}

NextFlood ==
    \/ \E d \in FloodDeltas, k \in Skews(1) :
          Start(1, Update(1, << "hi" >>, "none"), now + d, now + d + k,
                obs[1].calls < MaxCalls)
    \/ AfterTyping(1)
    \/ GenerateOk(1, << "OK" >>)
    \/ ReplySent(1)

SpecFlood == Init /\ [][NextFlood]_vars

\* Two chats, one handler at a time.  Chat 2 is a group, where the gate is
\* reached only by messages that mention the bot or reply to it.
IsoDeltas == {1}

IsoCap(c) ==
    obs[c].calls < (IF \E b \in Chats \ {c} : obs[b].calls > MaxQuiet
                    THEN MaxQuiet ELSE MaxCalls - 1)

IsoUpdates ==
    { Update(1, << "hi" >>, "none"),
      Update(2, << "@MyBot", "hi" >>, "none"),
      Update(2, << "hi" >>, "bot"),
      Update(2, << "hi" >>, "none") }

NextIso ==
    \/ \E u \in IsoUpdates, d \in IsoDeltas : \E k \in Skews(u.chat) :
          Start(1, u, now + d, now + d + k, IsoCap(u.chat))
    \/ \E d \in IsoDeltas, k \in Skews(task[1].chat) :
          AfterGetMe(1, now + d, now + d + k, IsoCap(task[1].chat))
    \/ AfterTyping(1)
    \/ GenerateOk(1, << "OK" >>)
    \/ ReplySent(1)

SpecIso == Init /\ [][NextIso]_vars

\* The calls of section 8 of the specification: one private chat called at
\* t = 0, 1, ..., FLOOD_MAX_MESSAGES, and after that at any later time up to
\* the end of the block.
ScenarioTimes ==
    IF obs[1].calls <= FLOOD_MAX_MESSAGES THEN {obs[1].calls}
    ELSE {t \in FLOOD_MAX_MESSAGES..(FLOOD_MAX_MESSAGES + FLOOD_BLOCK_TIME) :
            t >= now}

NextScenario ==
    \/ \E t \in ScenarioTimes, k \in Skews(1) :
          Start(1, Update(1, << "hi" >>, "none"), t, t + k,
                obs[1].calls < MaxCalls)
    \/ AfterTyping(1)
    \/ GenerateOk(1, << "OK" >>)
    \/ ReplySent(1)

SpecScenario == Init /\ [][NextScenario]_vars

\* Handlers running concurrently, switching at their awaits; every input
\* the handler distinguishes.
ConcDeltas == {1, 4, 5}

TotalCalls == obs[1].calls + obs[2].calls
ConcCap == TotalCalls < MaxConcCalls

Updates ==
    { [has_msg |-> FALSE, chat |-> 1, text |-> << >>, reply_to |-> "none"],
      Update(1, << "hi" >>, "none"),
      Update(2, << "@MyBot", "hi" >>, "none"),
      Update(2, << "hi" >>, "bot"),
      Update(2, << "hi" >>, "other") }

Responses == { << >>, << "OK" >> }
Errors == { << "Safety", "block" >>, << "timeout" >> }

Next ==
    \/ \E p \in Tasks, u \in Updates, d \in ConcDeltas : \E k \in Skews(u.chat) :
          Start(p, u, now + d, now + d + k, ConcCap)
    \/ \E p \in Tasks, d \in ConcDeltas : \E k \in Skews(task[p].chat) :
          AfterGetMe(p, now + d, now + d + k, ConcCap)
    \/ \E p \in Tasks : AfterTyping(p)
    \/ \E p \in Tasks, x \in Responses : GenerateOk(p, x)
    \/ \E p \in Tasks, e \in Errors : GenerateFails(p, e)
    \/ \E p \in Tasks : ReplySent(p)
    \/ \E p \in Tasks, e \in Errors : ReplyFails(p, e)
    \/ \E p \in Tasks : FallbackSent(p)
    \/ \E p \in Tasks : AwaitRaises(p)

Spec == Init /\ [][Next]_vars

(***************************************************************************)
(* Properties                                                              *)
(***************************************************************************)
Called(c) == obs[c].calls > 0
CallStep(c) == obs'[c].calls = obs[c].calls + 1
NewCall(c) == obs'[c].hist[Len(obs'[c].hist)]
Restrict(d, K) == [x \in (DOMAIN d) \cap K |-> d[x]]
Only(g, K) == [last |-> Restrict(g.last, K), cooldown |-> Restrict(g.cooldown, K),
               log |-> Restrict(g.log, K), block |-> Restrict(g.block, K)]

\* C1: calls of one chat that each come at least ANTI_SPAM_MIN_INTERVAL
\* after the one before, with never more than FLOOD_MAX_MESSAGES of them in
\* a FLOOD_WINDOW, are all allowed, the first call of the chat included.
C1_SpacedCallsAllAllowed ==
    \A c \in Chats : (Called(c) /\ obs[c].disc) => LastCall(c).v = "Allow"

\* C2: the (FLOOD_MAX_MESSAGES + 1)-th call of a window made outside a block
\* is rejected and sets blockedUntil = now + FLOOD_BLOCK_TIME, and every
\* call before that time is rejected, however far from the calls before it.
C2_FloodInstallsBlock ==
    \A c \in Chats : Called(c) =>
        /\ LastCall(c).eleventh =>
              /\ LastCall(c).v = "Reject"
              /\ Has(user_block_until, c)
              /\ user_block_until[c] = LastCall(c).t + FLOOD_BLOCK_TIME
        /\ LastCall(c).during =>
              /\ LastCall(c).v = "Reject"
              /\ Has(user_block_until, c)
              /\ user_block_until[c] = obs[c].until

\* a call at least ANTI_SPAM_MIN_INTERVAL after the call that installed the
\* block, and still rejected
C2_Witness ==
    \E c \in Chats :
        LET h == obs[c].hist
        IN  /\ Len(h) > FLOOD_MAX_MESSAGES + 1
            /\ h[Len(h)].during /\ h[Len(h)].v = "Reject"
            /\ h[Len(h) - 1].eleventh
            /\ h[Len(h)].t - h[Len(h) - 1].t >= ANTI_SPAM_MIN_INTERVAL

\* C3: for a chat with no stored state, of two calls less than
\* ANTI_SPAM_MIN_INTERVAL apart the first is allowed and the second is
\* rejected and sets cooldownUntil = now + ANTI_SPAM_COOLDOWN, and a third
\* call before cooldownUntil is rejected too.
C3_TwoQuickCalls ==
    \A c \in Chats :
        LET f == obs[c].first
        IN  (Len(f) >= 2 /\ f[1].fresh /\ f[2].ts - f[1].t < ANTI_SPAM_MIN_INTERVAL)
            => /\ f[1].v = "Allow"
               /\ f[2].v = "Reject"
               /\ obs[c].calls = 2 =>
                     /\ Has(user_spam_cooldown_until, c)
                     /\ user_spam_cooldown_until[c] = f[2].ts + ANTI_SPAM_COOLDOWN
               /\ (Len(f) >= 3 /\ f[3].ts < f[2].ts + ANTI_SPAM_COOLDOWN)
                     => f[3].v = "Reject"

\* C4: a call for one chat leaves what is stored for every other chat as it
\* was, and its verdict and its updates are those of the gate run on that
\* chat's own entries alone, so calls of other chats cannot change them.
C4_ChatsAreIsolated ==
    [][\A c \in Chats : CallStep(c) =>
          /\ Only(GateState', Chats \ {c}) = Only(GateState, Chats \ {c})
          /\ \A b \in Chats \ {c} : obs'[b] = obs[b]
          /\ LET alone == Gate(Only(GateState, {c}), c, NewCall(c).t, NewCall(c).ts)
             IN  /\ NewCall(c).v = Verdict(alone)
                 /\ Only(GateState', {c}) =
                      [last |-> alone.last, cooldown |-> alone.cooldown,
                       log |-> alone.log, block |-> alone.block]]_vars

\* a chat is allowed while another chat is under a flood block
C4_Witness ==
    \E a \in Chats, b \in Chats :
        /\ a # b
        /\ Has(user_block_until, a) /\ now < user_block_until[a]
        /\ Called(b) /\ LastCall(b).v = "Allow"
        /\ LastCall(b).t > user_block_until[a] - FLOOD_BLOCK_TIME

\* C5: with handlers of one chat running concurrently and switching at
\* their awaits, no two messages of the chat whose gate times are less than
\* ANTI_SPAM_MIN_INTERVAL apart are both admitted.  The gate time of an
\* admitted message is the one is_spam read and stored.
C5_NoTwoAdmittedWithinInterval ==
    \A c \in Chats :
        \A i \in 1..Len(obs[c].hist), j \in 1..Len(obs[c].hist) :
            (i < j /\ obs[c].hist[i].v = "Allow" /\ obs[c].hist[j].v = "Allow")
            => obs[c].hist[j].ts - obs[c].hist[i].ts >= ANTI_SPAM_MIN_INTERVAL

\* a handler is suspended after the gate admitted it, and a second handler
\* of the same chat went through the gate meanwhile and was rejected
C5_Witness ==
    \E p \in Tasks, q \in Tasks :
        LET h == obs[task[p].chat].hist
        IN  /\ p # q
            /\ task[p].chat = task[q].chat
            /\ task[p].pc \in {"typing", "generate", "reply"}
            /\ task[q].pc = "done" /\ task[q].verdict = "Reject"
            /\ Len(h) >= 2
            /\ h[Len(h) - 1].v = "Allow" /\ h[Len(h)].v = "Reject"
            /\ h[Len(h)].ts - h[Len(h) - 1].ts < ANTI_SPAM_MIN_INTERVAL

\* C6: an invocation the gate rejects ends there: it has sent nothing (no
\* typing action, no reply, no error message), has not called the model,
\* and user_memory is as it was.
C6_RejectIsSilent ==
    [][\A p \in Tasks :
          (task'[p] # task[p] /\ task'[p].verdict = "Reject")
          => /\ task'[p].pc = "done"
             /\ task'[p].out = << >>
             /\ ~task'[p].called
             /\ user_memory' = user_memory]_vars

\* an invocation rejected by the flood check, in a chat that has memory
C6_Witness ==
    \E p \in Tasks :
        /\ task[p].pc = "done" /\ task[p].verdict = "Reject"
        /\ Called(task[p].chat) /\ LastCall(task[p].chat).flood
        /\ Has(user_memory, task[p].chat)

\* C7: the first call at now >= blockedUntil (boundary included) finds the
\* block over: blockedUntil is cleared and the call is allowed.
C7_AfterBlockAllowed ==
    \A c \in Chats :
        (Called(c) /\ LastCall(c).expired)
        => /\ LastCall(c).v = "Allow"
           /\ ~Has(user_block_until, c)
           /\ user_last_message_time[c] = LastCall(c).ts

\* a call made exactly at blockedUntil
C7_Witness ==
    \E c \in Chats :
        /\ Called(c) /\ LastCall(c).expired
        /\ LastCall(c).t = obs[c].until

\* C8: the flood check comes first: a call it rejects, during a block or by
\* installing one, leaves lastMessageTime and cooldownUntil as they were.
C8_FloodRejectLeavesCooldown ==
    [][\A c \in Chats :
          (CallStep(c)
           /\ IsFlooding(user_block_until, user_message_log, c, NewCall(c).t).ret)
          => /\ NewCall(c).v = "Reject"
             /\ user_last_message_time' = user_last_message_time
             /\ user_spam_cooldown_until' = user_spam_cooldown_until]_vars

\* a call that installed a block at a time when the cooldown check would
\* have acted (no cooldown running, less than ANTI_SPAM_MIN_INTERVAL after
\* the last admitted message)
C8_Witness ==
    \E c \in Chats :
        /\ Called(c) /\ LastCall(c).flood /\ ~LastCall(c).blk
        /\ ~Has(user_spam_cooldown_until, c)
        /\ Has(user_last_message_time, c)
        /\ LastCall(c).t - user_last_message_time[c] < ANTI_SPAM_MIN_INTERVAL

\* C9: the first call of a chat with no stored state is allowed whatever
\* now is, and records lastMessageTime = now.
C9_FirstCallAllowed ==
    \A c \in Chats :
        (obs[c].calls = 1 /\ LastCall(c).fresh)
        => /\ LastCall(c).v = "Allow"
           /\ Has(user_last_message_time, c)
           /\ user_last_message_time[c] = LastCall(c).ts

\* C10: the calls at t = 0, 1, ..., 10 of a fresh chat: t = 0 is allowed
\* and sets lastMessageTime = 0, t = 1 is rejected and sets cooldownUntil =
\* 11, t = 2..10 are rejected, t = 10 brings recentTimestamps to 11 entries
\* and sets blockedUntil = 310, and every call at 10 <= t < 310 is rejected.
C10_Scenario ==
    LET n == obs[1].calls
    IN  /\ n >= 1 => obs[1].first[1].v = "Allow"
        /\ n = 1 => /\ Has(user_last_message_time, 1)
                    /\ user_last_message_time[1] = 0
        /\ (n >= 2 /\ LastCall(1).t < 310) => LastCall(1).v = "Reject"
        /\ n = 2 => /\ Has(user_spam_cooldown_until, 1)
                    /\ user_spam_cooldown_until[1] = 11
        /\ n = 11 => /\ Len(user_message_log[1]) = 11
                     /\ Has(user_block_until, 1)
                     /\ user_block_until[1] = 310

\* C11: with a clock that never goes backwards, any two allowed calls of a
\* chat are at least ANTI_SPAM_MIN_INTERVAL apart, and lastMessageTime is
\* the time of the chat's latest allowed call (unset while there is none).
\* The time of an allowed call is the one is_spam read.
C11_AllowsSpacedAndRecorded ==
    \A c \in Chats :
        /\ \A i \in 1..Len(obs[c].hist), j \in 1..Len(obs[c].hist) :
              (i < j /\ obs[c].hist[i].v = "Allow" /\ obs[c].hist[j].v = "Allow")
              => obs[c].hist[j].ts - obs[c].hist[i].ts >= ANTI_SPAM_MIN_INTERVAL
        /\ IF obs[c].allowed = << >> THEN ~Has(user_last_message_time, c)
           ELSE /\ Has(user_last_message_time, c)
                /\ user_last_message_time[c] = obs[c].allowed[1]

\* two calls were allowed, the second of them less than
\* ANTI_SPAM_MIN_INTERVAL after the first by the reading of is_flooding and
\* just ANTI_SPAM_MIN_INTERVAL after it by the reading of is_spam, and a
\* later call was rejected without moving lastMessageTime
C11_Witness ==
    \E c \in Chats :
        LET h == obs[c].hist
        IN  /\ Len(h) >= 3
            /\ \E i \in 1..Len(h), j \in 1..Len(h) :
                  /\ i < j /\ h[i].v = "Allow" /\ h[j].v = "Allow"
                  /\ h[j].t - h[i].ts < ANTI_SPAM_MIN_INTERVAL
                  /\ h[j].ts - h[i].ts = ANTI_SPAM_MIN_INTERVAL
            /\ h[Len(h)].v = "Reject" /\ h[Len(h)].spam
            /\ obs[c].allowed # << >>
            /\ obs[c].allowed[1] < h[Len(h)].ts

Allows(h) == SelectSeq(h, LAMBDA x : x.v = "Allow")

\* C12: with a clock that never goes backwards, at most FLOOD_MAX_MESSAGES
\* calls of a chat are allowed within any half-open window of FLOOD_WINDOW,
\* the time of a call being the one is_flooding read and logged:
\* of the calls less than FLOOD_WINDOW before any call, that call included,
\* no more than FLOOD_MAX_MESSAGES were allowed.
C12_AllowsPerWindow ==
    \A c \in Chats : Len(Allows(obs[c].hist)) <= FLOOD_MAX_MESSAGES

\* FLOOD_MAX_MESSAGES calls of one window were allowed and the next call of
\* the window, far enough from the last to pass the cooldown check, was
\* rejected by the flood check
C12_Witness ==
    \E c \in Chats :
        LET h == obs[c].hist
        IN  /\ Len(Allows(h)) = FLOOD_MAX_MESSAGES
            /\ h[Len(h)].v = "Reject" /\ h[Len(h)].flood
            /\ h[Len(h)].t - obs[c].allowed[1] >= ANTI_SPAM_MIN_INTERVAL

\* C13: every recentTimestamps is in non-decreasing order, holds only
\* entries less than FLOOD_WINDOW before the now of the last trim (its last
\* entry), and has at most FLOOD_MAX_MESSAGES + 1 entries.
C13_LogInvariant ==
    \A c \in DOMAIN user_message_log :
        LET l == user_message_log[c]
        IN  /\ Len(l) >= 1
            /\ Len(l) <= FLOOD_MAX_MESSAGES + 1
            /\ \A i \in 1..Len(l) :
                  /\ l[Len(l)] - l[i] < FLOOD_WINDOW
                  /\ i < Len(l) => l[i] <= l[i + 1]

\* a log was trimmed of old entries and later filled to
\* FLOOD_MAX_MESSAGES + 1 entries
C13_Witness ==
    \E c \in DOMAIN user_message_log :
        /\ Len(user_message_log[c]) = FLOOD_MAX_MESSAGES + 1
        /\ obs[c].calls > FLOOD_MAX_MESSAGES + 1
        /\ ~LastCall(c).blk
        /\ LastCall(c).t = user_message_log[c][FLOOD_MAX_MESSAGES + 1]

BlockActive(c, t) == Has(user_block_until, c) /\ t < user_block_until[c]
CooldownActive(c, t) ==
    Has(user_spam_cooldown_until, c) /\ t < user_spam_cooldown_until[c]
ReachesCooldownCheck(c, t) ==
    ~IsFlooding(user_block_until, user_message_log, c, t).ret

\* C14: a call made during a flood block is rejected and changes nothing
\* that is stored: the block is not extended and the call is not logged, so
\* the block still ends FLOOD_BLOCK_TIME after the call that installed it.
C14_BlockedCallChangesNothing ==
    [][\A c \in Chats :
          (CallStep(c) /\ BlockActive(c, NewCall(c).t))
          => /\ NewCall(c).v = "Reject"
             /\ GateState' = GateState
             /\ user_memory' = user_memory
             /\ user_block_until'[c] = obs'[c].until]_vars

\* a call during a block, some time after the call that installed it
C14_Witness ==
    \E c \in Chats :
        /\ Called(c) /\ LastCall(c).blk
        /\ BlockActive(c, now)
        /\ LastCall(c).t > user_block_until[c] - FLOOD_BLOCK_TIME
        /\ user_message_log[c][Len(user_message_log[c])] < LastCall(c).t

\* C15: a call that reaches the cooldown check while now < cooldownUntil is
\* rejected and leaves cooldownUntil and lastMessageTime as they were; a
\* cooldownUntil is removed or replaced only by a call with now >=
\* cooldownUntil that reaches the cooldown check.
C15_CooldownNotExtended ==
    [][\A c \in Chats :
          /\ (CallStep(c) /\ ReachesCooldownCheck(c, NewCall(c).t)
              /\ CooldownActive(c, NewCall(c).ts))
             => /\ NewCall(c).v = "Reject"
                /\ user_spam_cooldown_until' = user_spam_cooldown_until
                /\ user_last_message_time' = user_last_message_time
          /\ (Has(user_spam_cooldown_until, c)
              /\ Restrict(user_spam_cooldown_until', {c})
                   # Restrict(user_spam_cooldown_until, {c}))
             => /\ CallStep(c)
                /\ ReachesCooldownCheck(c, NewCall(c).t)
                /\ NewCall(c).ts >= user_spam_cooldown_until[c]]_vars

\* a call rejected during a cooldown that an earlier call installed
C15_Witness ==
    \E c \in Chats :
        /\ Called(c) /\ LastCall(c).spam
        /\ CooldownActive(c, LastCall(c).ts)
        /\ user_spam_cooldown_until[c] < LastCall(c).ts + ANTI_SPAM_COOLDOWN

\* C16: every call not made during a block is in recentTimestamps whatever
\* the cooldown check says of it: after such a call the log is the list of
\* the times of all calls of the window that were made outside a block.
C16_RejectedCallsCount ==
    \A c \in Chats :
        (Called(c) /\ ~LastCall(c).blk)
        => /\ Has(user_message_log, c)
           /\ LET outside == SelectSeq(obs[c].hist, LAMBDA x : ~x.blk)
              IN  user_message_log[c] =
                    [i \in 1..Len(outside) |-> outside[i].t]

\* a chat is blocked by FLOOD_MAX_MESSAGES + 1 calls of which one was allowed
C16_Witness ==
    \E c \in Chats :
        /\ Called(c) /\ LastCall(c).flood /\ ~LastCall(c).blk
        /\ BlockActive(c, now)
        /\ Len(obs[c].hist) = FLOOD_MAX_MESSAGES + 1
        /\ Len(Allows(obs[c].hist)) = 1

\* C17: the first call with now >= cooldownUntil that reaches the cooldown
\* check clears cooldownUntil, passes the interval test and is allowed.
C17_CooldownEnds ==
    [][\A c \in Chats :
          (CallStep(c) /\ ReachesCooldownCheck(c, NewCall(c).t)
           /\ Has(user_spam_cooldown_until, c)
           /\ NewCall(c).ts >= user_spam_cooldown_until[c])
          => /\ NewCall(c).v = "Allow"
             /\ ~Has(user_spam_cooldown_until', c)
             /\ user_last_message_time'[c] = NewCall(c).ts]_vars

\* a call allowed right after two calls the spam filter rejected, at most
\* ANTI_SPAM_COOLDOWN after the first of them: the cooldown has just ended
C17_Witness ==
    \E c \in Chats :
        LET h == obs[c].hist
        IN  /\ Len(h) >= 3
            /\ h[Len(h)].v = "Allow"
            /\ h[Len(h) - 1].spam /\ h[Len(h) - 2].spam
            /\ h[Len(h)].ts - h[Len(h) - 2].ts <= ANTI_SPAM_COOLDOWN

FailStep(p) == task[p].pc \in {"generate", "reply"} /\ task'[p].pc = "fallback"
FallbackStep(p) == task[p].pc = "fallback" /\ task'[p] # task[p]

\* C18: when the model call or the sending of its reply raises for an
\* admitted message, handle_message does not let the exception out: it
\* sends one fallback reply, has appended no model entry to user_memory, and
\* leaves the gate's dicts as the gate set them.
C18_FailureHandled ==
    [][\A p \in Tasks :
          /\ FailStep(p)
             => /\ ~task'[p].appended
                /\ user_memory' = user_memory
                /\ GateState' = GateState
          /\ FallbackStep(p)
             => /\ ~task'[p].raised
                /\ task'[p].out = << "typing", "fallback" >>
                /\ user_memory' = user_memory
                /\ GateState' = GateState]_vars

\* C18 as amended: the exception of the model call or of the sending of the
\* reply is caught, nothing is appended to user_memory for it, the gate's
\* dicts stay as the gate set them, and one fallback reply is sent, unless
\* sending the fallback raises too, which ends handle_message with that
\* exception.  A model entry is in user_memory exactly when it was the
\* sending of the reply that raised (line 192 comes before line 195).
C18_FailureHandledAmended ==
    [][\A p \in Tasks :
          /\ FailStep(p)
             => /\ task'[p].appended <=> task[p].pc = "reply"
                /\ task'[p].out = << "typing" >>
                /\ user_memory' = user_memory
                /\ GateState' = GateState
          /\ FallbackStep(p)
             => /\ task'[p].pc = "done"
                /\ IF task'[p].raised THEN task'[p].out = << "typing" >>
                   ELSE task'[p].out = << "typing", "fallback" >>
                /\ user_memory' = user_memory
                /\ GateState' = GateState]_vars

\* the fallback for a failed model call is about to go out, and the chat's
\* memory ends with the user's message
C18_Witness ==
    \E p \in Tasks :
        /\ task[p].pc = "fallback" /\ task[p].failed = "model"
        /\ task[p].out = << "typing" >>
        /\ \A q \in Tasks \ {p} : task[q].pc \in {"idle", "done"}
        /\ Has(user_memory, task[p].chat)
        /\ user_memory[task[p].chat][Len(user_memory[task[p].chat])].role = "user"

\* C19: user_memory of a chat never holds more than 2 * MAX_HISTORY
\* entries.
C19_MemoryBounded ==
    \A c \in DOMAIN user_memory : Len(user_memory[c]) <= 2 * MAX_HISTORY

====
